---- MODULE Spec2Model ----
(***************************************************************************)
(* A model of the contract-driven service runtime of caugello/macmac:      *)
(* the per-service local dispatcher (services/framework), the trace        *)
(* context (services/framework/logging.py, tracing.py) and the edge        *)
(* gateway (services/gateway).                                             *)
(*                                                                         *)
(* Strings are modelled as sequences of atoms (a path "/recipes/{id}" is   *)
(* <<"/", "recipes", "/", "{id}">>), so that substring operations of the   *)
(* code (str.replace, "{" in path) act on the model as they act on text.   *)
(* An optional value (None or v) is the set {} or {v}.                     *)
(***************************************************************************)
EXTENDS Integers, Sequences, FiniteSets, TLC

\* ------------------------------------------------------------------ bounds
\* the wall clock runs from 0 to MaxClock
MaxClock == 2
\* the deepest nesting of Span blocks a handler body opens
MaxDepth == 2

\* ------------------------------------------------------- small vocabulary
Reqs == {"A", "B"}

None == {}
Some(v) == {v}
The(o) == CHOOSE v \in o : TRUE

Last(s) == s[Len(s)]
Front(s) == SubSeq(s, 1, Len(s) - 1)

\* tracing.py: TRACE_ID_HEADER = "X-Trace-ID"
TRACE_ID_HEADER == "X-Trace-ID"

\* logging.py:12, the process-wide default of current_trace_id
\* (str(uuid.uuid4()) evaluated once at import)
DefaultTraceId == "default-uuid"

\* logging.py:11-12, the state of a context in which neither variable was set
DefaultContext == [trace_id |-> DefaultTraceId, span_stack |-> <<>>]

\* tracing.py:18, "LOCAL-" + str(uuid.uuid4()): a fresh value per call
LocalTraceId(r) == "LOCAL-" \o r

\* ------------------------------------------------------------ the contract
\* config.py Route: the routes one service declares.  handler names the
\* function the route resolves to; traced says whether that function is
\* wrapped by @traced (crud.py: every handler is; a contract may name others).
Routes ==
    { [method |-> "POST", path |-> <<"/", "recipes">>,
       request_model |-> TRUE, handler |-> "create_recipe", traced |-> TRUE],
      [method |-> "GET", path |-> <<"/", "recipes">>,
       request_model |-> FALSE, handler |-> "list_recipes", traced |-> TRUE],
      [method |-> "GET", path |-> <<"/", "recipes", "/", "{recipe_id}">>,
       request_model |-> FALSE, handler |-> "get_recipe", traced |-> TRUE],
      [method |-> "PUT", path |-> <<"/", "recipes", "/", "{id}">>,
       request_model |-> TRUE, handler |-> "update_recipe", traced |-> TRUE],
      [method |-> "PUT", path |-> <<"/", "recipes", "/", "{id}", "/", "steps", "/", "{n}">>,
       request_model |-> TRUE, handler |-> "update_step", traced |-> FALSE] }

Placeholders == {"{recipe_id}", "{id}", "{n}"}

\* helpers.py:125 / gateway main.py:115, the test  "{" in route.path
HasPlaceholder(path) == \E i \in 1..Len(path) : path[i] \in Placeholders

\* the placeholders of a template, left to right
RECURSIVE ParamNames(_)
ParamNames(path) ==
    IF path = <<>> THEN <<>>
    ELSE IF Head(path) \in Placeholders
         THEN <<Head(path)>> \o ParamNames(Tail(path))
         ELSE ParamNames(Tail(path))

\* ------------------------------------------------------- service requests
PathParamValues == {<<"123">>, <<"7">>}

RECURSIVE SeqsOf(_, _)
SeqsOf(S, n) ==
    IF n = 0 THEN {<<>>}
    ELSE {<<v>> \o t : v \in S, t \in SeqsOf(S, n - 1)}

\* the query string of a request: each parameter absent or supplied
Queries ==
    [limit : {None, Some(-1), Some(0), Some(5)},
     offset : {None, Some(2)},
     search : {None, Some("q")}]

\* the inbound trace header: absent, empty, or a caller-chosen value
TraceHeaders == {None, Some(""), Some("abc-123")}

\* the JSON body of a request: none, one the route's schema accepts, one it rejects
Bodies == {"none", "valid", "invalid"}

RequestsOn(routes, headers, queries, bodies) ==
    UNION { [route : {rt},
             trace_header : headers,
             query : queries,
             body : bodies,
             path_params : SeqsOf(PathParamValues, Len(ParamNames(rt.path)))]
            : rt \in routes }

\* every request to a declared route
Requests == RequestsOn(Routes, TraceHeaders, Queries, Bodies)

\* the requests two concurrent clients send
ConcurrentRequests ==
    RequestsOn({rt \in Routes : rt.handler \in {"list_recipes", "update_recipe"}},
               {None, Some("abc-123")},
               [limit : {None}, offset : {None}, search : {None}],
               {"valid"})

IdleRequest ==
    [route |-> CHOOSE rt \in Routes : rt.handler = "list_recipes",
     trace_header |-> None,
     query |-> [limit |-> None, offset |-> None, search |-> None],
     body |-> "none",
     path_params |-> <<>>]

NoKwargs == [src |-> "none", limit |-> 0, offset |-> 0, search |-> None]
NoResponse == [status |-> 0, trace_header |-> None]

VARIABLES
    hasDb,      \* whether create_microservice was given a get_db
    clock,      \* time.time()
    pc,         \* where each request's handling stands
    req,        \* the request each task handles
    mwCtx,      \* contextvars context of the task running tracing_middleware
    appCtx,     \* contextvars context of the task call_next runs the app in
    mw,         \* tracing_middleware's locals  start  and  trace_id
    db,         \* the value the endpoint's  db  parameter got
    qp,         \* the value the endpoint's  qp  parameter got
    frames,     \* the Span objects whose with-block is open, innermost last
    exc,        \* the exception propagating out of the handler, if any
    log,        \* the structured records each request's handling emitted
    hist,       \* the calls observed while handling each request
    resp        \* the response the caller receives

svcVars == <<hasDb, clock, pc, req, mwCtx, appCtx, mw, db, qp, frames, exc,
             log, hist, resp>>

VARIABLES
    urlPrefix,  \* config.urlPrefix of the loaded contract
    gw,         \* the gateway's handling of an inbound request
    gwLog       \* the structured records the gateway emitted

gwVars == <<urlPrefix, gw, gwLog>>

VARIABLES
    bound       \* the last call of one of the dispatcher's argument binders

VARIABLES
    boot,       \* a process from its start to its serving a request
    qx,         \* a query dependency built for a route and applied to a call
    bus         \* a MessagingBus consumer and the messages delivered to it

auxVars == <<boot, qx, bus>>

vars == <<svcVars, gwVars, bound, auxVars>>

\* ------------------------------------------------------------ trace context
\* a variable shared by every task instead of a context variable
CtxSetShared(ctxs, r, var, val) ==
    [x \in DOMAIN ctxs |-> [ctxs[x] EXCEPT ![var] = val]]

\* ContextVar.set in the context of request r's task: the other tasks'
\* contexts keep their values (logging.py:11-12)
CtxSet(ctxs, r, var, val) == [ctxs EXCEPT ![r][var] = val]

\* logging.py:46-59 log_span: the record carries current_trace_id.get()
log_span(ctx, event, name, duration_ms, status) ==
    [trace_id |-> ctx.trace_id, event |-> event, name |-> name,
     duration_ms |-> duration_ms, status |-> status]

\* logging.py:78, round((time.time() - self.start) * 1000, 2)
Duration(start, now) == (now - start) * 1000

\* logging.py:70-74 Span.__enter__, in request r's app task
SpanEnter(r, name, owner) ==
    /\ log' = [log EXCEPT ![r] =
                 Append(@, log_span(appCtx[r], "span_start", name, 0, 0))]
    /\ appCtx' = CtxSet(appCtx, r, "span_stack",
                        Append(appCtx[r].span_stack, name))
    /\ frames' = [frames EXCEPT ![r] =
                    Append(@, [name |-> name, start |-> clock, owner |-> owner])]

\* list[:-1]
DropLast(s) == IF s = <<>> THEN <<>> ELSE Front(s)

\* an exit that closes the outermost open Span instead of the innermost
SpanExitOutermost(r) ==
    LET span == Head(frames[r])
        popped == [appCtx EXCEPT ![r].span_stack = Tail(@)]
    IN  /\ appCtx' = popped
        /\ log' = [log EXCEPT ![r] =
                     Append(@, [trace_id |-> popped[r].trace_id, event |-> "span_end",
                                name |-> span.name,
                                duration_ms |-> (clock - span.start) * 1000,
                                status |-> 0])]
        /\ frames' = [frames EXCEPT ![r] = Tail(@)]

\* an exit that is skipped when the with-block is left by an exception
SpanExitUnlessRaising(r) ==
    IF exc[r] # "none"
    THEN /\ frames' = [frames EXCEPT ![r] = Front(@)]
         /\ UNCHANGED <<appCtx, log>>
    ELSE LET span == Last(frames[r])
             popped == [appCtx EXCEPT ![r].span_stack = Front(@)]
         IN  /\ appCtx' = popped
             /\ log' = [log EXCEPT ![r] =
                          Append(@, [trace_id |-> popped[r].trace_id,
                                     event |-> "span_end", name |-> span.name,
                                     duration_ms |-> (clock - span.start) * 1000,
                                     status |-> 0])]
             /\ frames' = [frames EXCEPT ![r] = Front(@)]

\* logging.py:75-79 Span.__exit__ of the innermost open Span of request r;
\* it returns None, so an exception in flight keeps propagating
SpanExit(r) ==
    LET span == Last(frames[r])
        popped == CtxSet(appCtx, r, "span_stack", DropLast(appCtx[r].span_stack))
    IN  /\ appCtx' = popped
        /\ log' = [log EXCEPT ![r] =
                     Append(@, log_span(popped[r], "span_end", span.name,
                                        Duration(span.start, clock), 0))]
        /\ frames' = [frames EXCEPT ![r] = Front(@)]

\* start_request_trace synthesizing a bare uuid
StartTraceIdNoMarker(r, q) ==
    IF q.trace_header = None \/ The(q.trace_header) = ""
    THEN r
    ELSE The(q.trace_header)

\* tracing.py:10-21 start_request_trace: the header's value, or a LOCAL- one
\* when the header is absent or empty
StartTraceId(r, q) ==
    IF q.trace_header = None \/ The(q.trace_header) = ""
    THEN LocalTraceId(r)
    ELSE The(q.trace_header)

\* --------------------------------------------------------- local dispatcher
\* an observed call; via names the binder that made an "invoke", and the kind
\* of error of a "raise"
Observed(ev, via) == [ev |-> ev, args |-> <<>>, kwargs |-> NoKwargs, via |-> via]

PathArg(v) == [kind |-> "path", val |-> v]
BodyArg == [kind |-> "body", val |-> <<"data">>]
DbArg == [kind |-> "db", val |-> <<"session">>]

RECURSIVE PathArgs(_)
PathArgs(values) ==
    IF values = <<>> THEN <<>>
    ELSE <<PathArg(Head(values))>> \o PathArgs(Tail(values))

\* helpers.py:59-62 build_body_handler.endpoint: path values, data, db
BodyHandlerArgs(path_params, data, dbv) ==
    PathArgs(path_params) \o <<BodyArg>>
        \o (IF dbv # None THEN <<DbArg>> ELSE <<>>)

\* helpers.py:17-26 _run: data (if truthy), path values, db (if truthy)
RunArgs(path_params, data, dbv) ==
    (IF data # None THEN <<BodyArg>> ELSE <<>>)
        \o PathArgs(path_params)
        \o (IF dbv # None THEN <<DbArg>> ELSE <<>>)

\* helpers.py:95-107 bind_arguments: data (if not None), path values, db
BindArgs(path_params, data, dbv) ==
    (IF data # None THEN <<BodyArg>> ELSE <<>>)
        \o PathArgs(path_params)
        \o (IF dbv # None THEN <<DbArg>> ELSE <<>>)

NoBinding == [fn |-> "", path_params |-> <<>>, data |-> None, db |-> None,
              args |-> <<>>]

\* a query dependency for every template
HasQpDepAlways(route) == TRUE

\* helpers.py:125 make_endpoint: a query dependency only for templates
\* without a placeholder
HasQpDep(route) == ~HasPlaceholder(route.path)

\* a query dependency whose limit has no lower bound
QueryValidNoLimitBound(query) ==
    query.offset # None => The(query.offset) >= 0

\* utils.py:28-31, the Query(..., ge=0) bounds FastAPI enforces before
\* query_dep runs
QueryValid(query) ==
    /\ query.limit # None => The(query.limit) >= 0
    /\ query.offset # None => The(query.offset) >= 0

\* utils.py:33-37 query_dep: {"limit": limit or 100, "offset": offset, "search": search}
LimitOrDefault(limit) ==
    IF limit = None \/ The(limit) = 0 THEN 100 ELSE The(limit)

query_dep(query) ==
    [src |-> "query",
     limit |-> LimitOrDefault(query.limit),
     offset |-> IF query.offset = None THEN 0 ELSE The(query.offset),
     search |-> query.search]

\* helpers.py:79-83, the endpoint's  qp  parameter: Depends(qp_dep), or the
\* plain parameter  qp: dict = {}  that FastAPI fills from a JSON body
QpValue(q) ==
    IF HasQpDep(q.route) THEN query_dep(q.query)
    ELSE IF q.body = "none" THEN NoKwargs
    ELSE [NoKwargs EXCEPT !.src = "body"]

\* helpers.py:16 / tracing.py:51-56: handler_fn.__name__ is the wrapper's
\* when the handler is @traced (the decorator does not copy the name)
HandlerFnName(route) == IF route.traced THEN "wrapper" ELSE route.handler

\* ------------------------------------------------------------------ gateway
\* config.py Service: the services of the contract
Services ==
    { [name |-> "recipes", url |-> <<"http://recipes:8000">>, routes |-> Routes] }

\* the values config.yaml may give urlPrefix
UrlPrefixes == { <<"/", "api", "/", "v1">>, <<"/", "v2">> }

\* str.lower() on the header names of the model
Lower(name) ==
    CASE name \in {"Host", "host"} -> "host"
      [] name \in {"Content-Length", "content-length"} -> "content-length"
      [] name \in {"Transfer-Encoding", "transfer-encoding"} -> "transfer-encoding"
      [] name \in {"Connection", "CONNECTION", "connection"} -> "connection"
      [] name \in {"X-Trace-ID", "x-trace-id"} -> "x-trace-id"
      [] OTHER -> name

\* a header map is a set of <<name, value>> pairs
HeaderMaps(names) ==
    UNION { { {<<n, "v">> : n \in sub} } : sub \in SUBSET names }

\* Headers.get(name), case-insensitive; None when absent
HeaderGet(headers, name) ==
    { h[2] : h \in {x \in headers : Lower(x[1]) = Lower(name)} }

\* dict[name] = value
HeaderPut(headers, name, value) ==
    {h \in headers : h[1] # name} \cup {<<name, value>>}

WithTrace(headers, name, trace) ==
    IF trace = None THEN headers ELSE headers \cup {<<name, The(trace)>>}

\* gateway main.py:124-134, the headers copied to the upstream request
RequestHeaderFilter(headers) ==
    {h \in headers : Lower(h[1]) \notin
        {"host", "content-length", "transfer-encoding", "connection"}}

\* gateway main.py:153-158, the headers copied to the relayed response
ResponseHeaderFilter(headers) ==
    {h \in headers : Lower(h[1]) \notin
        {"content-length", "transfer-encoding", "connection"}}

\* whether  pat  occurs in  s  at position i
OccursAt(s, pat, i) ==
    /\ i + Len(pat) - 1 <= Len(s)
    /\ SubSeq(s, i, i + Len(pat) - 1) = pat

\* str.replace(old, new): every non-overlapping occurrence, left to right
RECURSIVE Replace(_, _, _)
Replace(s, old, new) ==
    IF s = <<>> THEN <<>>
    ELSE IF old # <<>> /\ OccursAt(s, old, 1)
         THEN new \o Replace(SubSeq(s, Len(old) + 1, Len(s)), old, new)
         ELSE <<Head(s)>> \o Replace(Tail(s), old, new)

\* the value request.path_params holds for each placeholder, in template order
RECURSIVE Substitute(_, _)
Substitute(path, values) ==
    IF path = <<>> THEN <<>>
    ELSE IF Head(path) \in Placeholders
         THEN Head(values) \o Substitute(Tail(path), Tail(values))
         ELSE <<Head(path)>> \o Substitute(Tail(path), values)

\* gateway main.py:20-30 build_url: service.url + the template with each
\* {name} replaced by request.path_params[name]
build_url(service, route, path_params) ==
    service.url \o Substitute(route.path, path_params)

\* request.url.path of an inbound call that matches the route registered at
\* config.urlPrefix + route.path (gateway main.py:176)
InboundPath(q) == urlPrefix \o Substitute(q.route.path, q.path_params)

\* a handler that appends the route's template to the service's base url
UpstreamUrlFromTemplate(q) == q.service.url \o q.route.path

\* gateway main.py:112
UpstreamUrl(q) ==
    q.service.url \o Replace(InboundPath(q), <<"/", "api", "/", "v1">>, <<>>)

\* a handler that forwards no query parameters
ForwardedParamsDropped(q) == None

\* gateway main.py:118
ForwardedParams(q) ==
    IF q.route.method = "GET" /\ ~HasPlaceholder(q.route.path)
    THEN Some(q.query) ELSE None

\* gateway main.py:121 (body: dict | None = None)
ForwardedJson(q) ==
    IF q.route.method \in {"POST", "PUT", "PATCH"} /\ q.body # "none"
    THEN Some(q.body) ELSE None

\* the inbound header's value and nothing in its place when it is missing
GatewayTraceIdNoSynth(headers) ==
    LET given == HeaderGet(headers, TRACE_ID_HEADER)
    IN  IF given = None THEN "" ELSE The(given)

\* gateway main.py:136, request.headers.get(TRACE_ID_HEADER) or str(uuid.uuid4())
GatewayTraceId(headers) ==
    LET given == HeaderGet(headers, TRACE_ID_HEADER)
    IN  IF given = None \/ The(given) = "" THEN "gw-uuid" ELSE The(given)

GwIdle ==
    [pc |-> "idle", start |-> 0,
     req |-> [service |-> CHOOSE sv \in Services : TRUE,
              route |-> IdleRequest.route, path_params |-> <<>>,
              headers |-> {}, query |-> IdleRequest.query, body |-> "none"],
     out |-> [method |-> "", url |-> <<>>, params |-> None, json |-> None,
              headers |-> {}],
     calls |-> <<>>, error |-> "none",
     up |-> [status |-> 0, headers |-> {}],
     resp |-> [status |-> 0, headers |-> {}]]

\* the inbound calls: a declared route of a service, values for its
\* placeholders, a trace header or none, other headers, a query, a body
GatewayRequests(traces, headerMaps, queries, bodies) ==
    UNION { UNION { { [service |-> sv, route |-> rt, path_params |-> pp,
                       headers |-> WithTrace(hm, "x-trace-id", tr),
                       query |-> qu, body |-> bo]
                      : pp \in SeqsOf(PathParamValues \cup {<<"v1", "0">>},
                                      Len(ParamNames(rt.path))),
                        tr \in traces, hm \in headerMaps, qu \in queries,
                        bo \in bodies }
                    : rt \in sv.routes }
            : sv \in Services }

\* ------------------------------------------------- contract and startup
MaxRoutes == 2

\* the names importlib can resolve in a runtime's symbol space
Importable ==
    {"list_recipes", "create_recipe", "get_recipe", "update_recipe",
     "list_products", "RecipeCreate", "RecipeUpdate"}

\* the route entries a config.yaml may hold under a service: method and
\* path as written, a request_model reference or none, a handler reference
RouteDocs ==
    { [method |-> "GET", path |-> <<"/", "recipes">>,
       request_model |-> None, handler |-> "list_recipes"],
      [method |-> "POST", path |-> <<"/", "recipes">>,
       request_model |-> Some("RecipeCreate"), handler |-> "create_recipe"],
      [method |-> "GET", path |-> <<"/", "recipes", "/", "{id}">>,
       request_model |-> None, handler |-> "get_recipe"],
      [method |-> "put", path |-> <<"/", "recipes", "/", "{id}">>,
       request_model |-> Some("RecipeUpdate"), handler |-> "update_recipe"],
      [method |-> "GET", path |-> <<"/", "recipes">>,
       request_model |-> None, handler |-> "search_recipes"],
      [method |-> "POST", path |-> <<"/", "recipes">>,
       request_model |-> Some("RecipeDraft"), handler |-> "create_recipe"] }

\* the services section of a config.yaml, in the order of the file
ContractDocs ==
    { << [name |-> "recipes", url |-> <<"http://recipes:8000">>, routes |-> rs],
         [name |-> "catalog", url |-> <<"http://catalog:8000">>, routes |-> cs] >>
      : rs \in UNION { SeqsOf(RouteDocs, n) : n \in 0..MaxRoutes },
        cs \in { <<>>,
                 << [method |-> "GET", path |-> <<"/", "recipes">>,
                     request_model |-> None, handler |-> "list_products"] >> } }

ProcessKinds == {"gateway", "recipes", "catalog"}

HttpMethods == {"GET", "POST", "PUT"}

\* str.upper() on the methods of the model
Upper(method) ==
    CASE method \in {"get", "GET"} -> "GET"
      [] method \in {"post", "POST"} -> "POST"
      [] method \in {"put", "PUT"} -> "PUT"
      [] OTHER -> method

\* config.py:90-109 load_model and helpers.py:37-43 resolve_handler: the
\* import of a reference succeeds or raises
Resolves(ref) == ref \in Importable

\* config.py:139-152 parse_route raises when load_model does; the handler
\* reference is kept as the string it is
RouteParses(rd) ==
    rd.request_model = None \/ Resolves(The(rd.request_model))

\* config.py:230-258 get_config over the services of the file
ConfigParses(doc) ==
    \A s \in 1..Len(doc) : \A i \in 1..Len(doc[s].routes) :
        RouteParses(doc[s].routes[i])

\* config.py:195-202 get_config_for_service: the services of that name
ServiceNamed(config, name) ==
    { s \in 1..Len(config) : config[s].name = name }

\* the registered route that add_api_route makes of a contract route:
\* every method is matched
UnitAnyMethod(service, route, prefix) ==
    [methods |-> HttpMethods, path |-> prefix \o route.path,
     service |-> service.name, route |-> route]

\* gateway main.py:186-193 and app.py:34-41 add_api_route: the path, the
\* one method of the route upper-cased, and the endpoint made for this
\* service and route
Unit(service, route, prefix) ==
    [methods |-> {Upper(route.method)}, path |-> prefix \o route.path,
     service |-> service.name, route |-> route]

RECURSIVE UnitsOf(_, _, _)
UnitsOf(service, routes, prefix) ==
    IF routes = <<>> THEN <<>>
    ELSE <<Unit(service, Head(routes), prefix)>>
         \o UnitsOf(service, Tail(routes), prefix)

\* gateway main.py:165-193 register_routes: every route of every service,
\* in the order of the contract, under the urlPrefix
RECURSIVE GatewayTable(_, _)
GatewayTable(config, prefix) ==
    IF config = <<>> THEN <<>>
    ELSE UnitsOf(Head(config), Head(config).routes, prefix)
         \o GatewayTable(Tail(config), prefix)

\* the path regex of a registered route against a request path: a
\* placeholder stands for one or more atoms other than "/"
RECURSIVE PathMatches(_, _)
PathMatches(tpl, path) ==
    IF tpl = <<>> THEN path = <<>>
    ELSE IF Head(tpl) \in Placeholders
         THEN \E k \in 1..Len(path) :
                /\ \A i \in 1..k : path[i] # "/"
                /\ PathMatches(Tail(tpl), SubSeq(path, k + 1, Len(path)))
         ELSE /\ path # <<>>
              /\ Head(path) = Head(tpl)
              /\ PathMatches(Tail(tpl), Tail(path))

\* the router's choice among the registered routes: the first whose path
\* and method both match, 0 if none
FirstMatch(table, method, path) ==
    LET full == { i \in 1..Len(table) :
                    /\ PathMatches(table[i].path, path)
                    /\ method \in table[i].methods }
    IN  IF full = {} THEN 0
        ELSE CHOOSE i \in full : \A j \in full : i <= j

\* whether some registered route matches the path under another method
PartialMatch(table, path) ==
    \E i \in 1..Len(table) : PathMatches(table[i].path, path)

BootIdle ==
    [state |-> "idle", kind |-> "", doc |-> <<>>, config |-> <<>>,
     table |-> <<>>, request |-> [method |-> "", path |-> <<>>],
     hit |-> 0, outcome |-> "", views |-> <<>>]

\* the module-level statements and calls of a process that read the
\* contract, in import order: logging.py:16, then gateway main.py:12, or
\* app.py:8 and app.py:17
ContractReaders(kind) ==
    IF kind = "gateway" THEN <<"logging", "gateway">>
    ELSE <<"logging", "app_config", "create_microservice">>

\* the config.yaml documents a deployment is edited between
ReloadDocs ==
    { d \in ContractDocs :
        Len(d[1].routes) <= 1 /\ d[2].routes = <<>> /\ ConfigParses(d) }

\* the request paths tried against a serving process
DispatchPaths ==
    { pre \o p : pre \in {<<>>, <<"/", "api", "/", "v1">>},
                 p \in {<<"/", "recipes">>, <<"/", "recipes", "/", "7">>} }

\* config.py:9-19 QueryParam and 121-136 parse_query_params: the entries a
\* route may declare under query_params, by name, with default and bound ge
QueryParamSpecs ==
    [name : {"limit"}, default : {Some(20), Some(100)}, ge : {Some(0), Some(1)}]
    \cup { [name |-> "offset", default |-> Some(0), ge |-> Some(0)],
           [name |-> "search", default |-> None, ge |-> None],
           [name |-> "sort", default |-> None, ge |-> None] }

\* the query_params mappings of a route: at most one entry per name
QueryParamMappings ==
    { m \in SUBSET QueryParamSpecs :
        \A a, b \in m : a.name = b.name => a = b }

\* utils.py:33-37, the keys of the dict query_dep returns
QueryDepNames == {"limit", "offset", "search"}

QxIdle ==
    [state |-> "idle", declared |-> {}, query |-> IdleRequest.query,
     names |-> {}, kwargs |-> NoKwargs]

\* ------------------------------------------------------- messaging bus
MaxMessages == 2

\* the bodies a queue delivers: JSON text, or bytes json.loads rejects
MessageBodies == {"json", "garbage"}

\* messaging_bus.py:28, 32 a call on the channel for a delivery tag:
\* basic_ack, or basic_nack with its requeue flag; raised when the call
\* itself failed
ChannelCall(tag, call, requeue, raised) ==
    [tag |-> tag, call |-> call, requeue |-> requeue, raised |-> raised]

BusIdle ==
    [pc |-> "idle", delivered |-> 0, body |-> "json", outcomes |-> <<>>,
     calls |-> <<>>, crashed |-> FALSE]

\* ------------------------------------------------------------------- Init
\* a backend service process, started with or without a get_db
Init ==
    /\ urlPrefix = <<"/", "api", "/", "v1">>
    /\ gw = GwIdle
    /\ gwLog = <<>>
    /\ bound = NoBinding
    /\ boot = BootIdle
    /\ qx = QxIdle
    /\ bus = BusIdle
    /\ hasDb \in BOOLEAN
    /\ clock = 0
    /\ pc = [r \in Reqs |-> "idle"]
    /\ req = [r \in Reqs |-> IdleRequest]
    /\ mwCtx = [r \in Reqs |-> DefaultContext]
    /\ appCtx = [r \in Reqs |-> DefaultContext]
    /\ mw = [r \in Reqs |-> [start |-> 0, trace_id |-> ""]]
    /\ db = [r \in Reqs |-> None]
    /\ qp = [r \in Reqs |-> NoKwargs]
    /\ frames = [r \in Reqs |-> <<>>]
    /\ exc = [r \in Reqs |-> "none"]
    /\ log = [r \in Reqs |-> <<>>]
    /\ hist = [r \in Reqs |-> <<>>]
    /\ resp = [r \in Reqs |-> NoResponse]

\* time.time() advances
Tick ==
    /\ clock < MaxClock
    /\ clock' = clock + 1
    /\ UNCHANGED <<gwVars, bound, auxVars, hasDb, pc, req, mwCtx, appCtx, mw, db, qp, frames, exc, log,
                   hist, resp>>

\* tracing.py:28-31 tracing_middleware up to  await call_next(request): the
\* trace id is set in the middleware task's context, and call_next starts the
\* app in a child task, whose context is a copy of that one
Arrive(r, q) ==
    /\ pc[r] = "idle"
    /\ req' = [req EXCEPT ![r] = q]
    /\ mwCtx' = CtxSet(mwCtx, r, "trace_id", StartTraceId(r, q))
    /\ mw' = [mw EXCEPT ![r] = [start |-> clock, trace_id |-> StartTraceId(r, q)]]
    /\ appCtx' = [appCtx EXCEPT ![r] = mwCtx'[r]]
    /\ pc' = [pc EXCEPT ![r] = "deps"]
    /\ UNCHANGED <<gwVars, bound, auxVars, hasDb, clock, db, qp, frames, exc, log, hist, resp>>

\* shared/lib/db.py:1-9 get_db, called by FastAPI for  db=Depends(get_db):
\*   db = SessionLocal(); try: return db; finally: db.close()
\* the finally clause runs as the function returns
get_db(r) ==
    /\ pc[r] = "deps"
    /\ IF hasDb
       THEN /\ hist' = [hist EXCEPT ![r] =
                          @ \o <<Observed("db_acquire", ""), Observed("db_release", "")>>]
            /\ db' = [db EXCEPT ![r] = Some("session")]
       ELSE UNCHANGED <<hist, db>>
    /\ pc' = [pc EXCEPT ![r] = "validate"]
    /\ UNCHANGED <<gwVars, bound, auxVars, hasDb, clock, req, mwCtx, appCtx, mw, qp, frames, exc, log, resp>>

\* the same with a body parameter that takes any body
RequestValidAnyBody(q) ==
    IF q.route.request_model
    THEN TRUE
    ELSE HasQpDep(q.route) => QueryValid(q.query)

\* what FastAPI checks before it calls the endpoint: the body against
\* request_model (helpers.py:54), the query bounds of query_dep (utils.py:28-31)
RequestValid(q) ==
    IF q.route.request_model
    THEN q.body = "valid"
    ELSE HasQpDep(q.route) => QueryValid(q.query)

\* helpers.py:53-57 and 79-83: FastAPI resolves the endpoint's parameters and
\* answers 422 without calling the endpoint when one is invalid
Validate(r) ==
    /\ pc[r] = "validate"
    /\ IF RequestValid(req[r])
       THEN /\ qp' = [qp EXCEPT ![r] =
                        IF req[r].route.request_model THEN NoKwargs
                        ELSE QpValue(req[r])]
            /\ pc' = [pc EXCEPT ![r] = "endpoint"]
            /\ resp' = resp
       ELSE /\ resp' = [resp EXCEPT ![r] = [status |-> 422, trace_header |-> None]]
            /\ pc' = [pc EXCEPT ![r] = "app_done"]
            /\ qp' = qp
    /\ UNCHANGED <<gwVars, bound, auxVars, hasDb, clock, req, mwCtx, appCtx, mw, db, frames, exc, log, hist>>

AfterCall(route) == IF route.traced THEN "traced" ELSE "handler"

\* helpers.py:53-67 build_body_handler.endpoint: binds and calls the handler
BodyEndpoint(r) ==
    /\ pc[r] = "endpoint"
    /\ req[r].route.request_model
    /\ hist' = [hist EXCEPT ![r] = Append(@,
                  [ev |-> "invoke",
                   args |-> BodyHandlerArgs(req[r].path_params, Some("data"), db[r]),
                   kwargs |-> NoKwargs,
                   via |-> "build_body_handler"])]
    /\ pc' = [pc EXCEPT ![r] = AfterCall(req[r].route)]
    /\ UNCHANGED <<gwVars, bound, auxVars, hasDb, clock, req, mwCtx, appCtx, mw, db, qp, frames, exc, log, resp>>

\* helpers.py:79-84 build_query_handler.endpoint and helpers.py:10-34 _run:
\* opens Span(handler_fn.__name__), binds and calls the handler
QueryEndpoint(r) ==
    /\ pc[r] = "endpoint"
    /\ ~req[r].route.request_model
    /\ SpanEnter(r, HandlerFnName(req[r].route), "run")
    /\ hist' = [hist EXCEPT ![r] = Append(@,
                  [ev |-> "invoke",
                   args |-> RunArgs(req[r].path_params, None, db[r]),
                   kwargs |-> IF qp[r].src # "none" THEN qp[r] ELSE NoKwargs,
                   via |-> "_run"])]
    /\ pc' = [pc EXCEPT ![r] = AfterCall(req[r].route)]
    /\ UNCHANGED <<gwVars, bound, auxVars, hasDb, clock, req, mwCtx, mw, db, qp, exc, resp>>

\* tracing.py:53-54 traced.wrapper:  with Span(fn.__name__)
TracedEnter(r) ==
    /\ pc[r] = "traced"
    /\ SpanEnter(r, req[r].route.handler, "traced")
    /\ pc' = [pc EXCEPT ![r] = "handler"]
    /\ UNCHANGED <<gwVars, bound, auxVars, hasDb, clock, req, mwCtx, mw, db, qp, exc, hist, resp>>

\* the Span names handler bodies open (crud.py:21, 58, 109)
HandlerSpans == {"db_query", "db_write"}

OwnDepth(r) == Cardinality({i \in 1..Len(frames[r]) : frames[r][i].owner = "handler"})

\* recipes/crud.py:21  with Span("db_create_recipe"):  inside a handler body
HandlerEnterSpan(r, name) ==
    /\ pc[r] = "handler"
    /\ OwnDepth(r) < MaxDepth
    /\ SpanEnter(r, name, "handler")
    /\ UNCHANGED <<gwVars, bound, auxVars, hasDb, clock, pc, req, mwCtx, mw, db, qp, exc, hist, resp>>

\* recipes/crud.py:43 the handler returns from inside its with-blocks
HandlerReturn(r) ==
    /\ pc[r] = "handler"
    /\ hist' = [hist EXCEPT ![r] = Append(@, Observed("return", ""))]
    /\ pc' = [pc EXCEPT ![r] = "unwind"]
    /\ UNCHANGED <<gwVars, bound, auxVars, hasDb, clock, req, mwCtx, appCtx, mw, db, qp, frames, exc, log, resp>>

\* recipes/crud.py:38, 111 the handler raises: an HTTPException ("http"),
\* or any other error, such as one of the persistence layer ("error")
HandlerRaise(r, kind) ==
    /\ pc[r] = "handler"
    /\ exc' = [exc EXCEPT ![r] = kind]
    /\ hist' = [hist EXCEPT ![r] = Append(@, Observed("raise", kind))]
    /\ pc' = [pc EXCEPT ![r] = "unwind"]
    /\ UNCHANGED <<gwVars, bound, auxVars, hasDb, clock, req, mwCtx, appCtx, mw, db, qp, frames, log, resp>>

\* control leaves the open with-blocks, innermost first (logging.py:75-79)
Unwind(r) ==
    /\ pc[r] = "unwind"
    /\ frames[r] # <<>>
    /\ SpanExit(r)
    /\ UNCHANGED <<gwVars, bound, auxVars, hasDb, clock, pc, req, mwCtx, mw, db, qp, exc, hist, resp>>

\* the endpoint is left: its result or an HTTPException becomes a response
\* inside the app; any other error propagates out of call_next
AppDone(r) ==
    /\ pc[r] = "unwind"
    /\ frames[r] = <<>>
    /\ IF exc[r] = "error"
       THEN /\ pc' = [pc EXCEPT ![r] = "app_raised"]
            /\ resp' = resp
       ELSE /\ pc' = [pc EXCEPT ![r] = "app_done"]
            /\ resp' = [resp EXCEPT ![r] =
                          [status |-> IF exc[r] = "http" THEN 404 ELSE 200,
                           trace_header |-> None]]
    /\ UNCHANGED <<gwVars, bound, auxVars, hasDb, clock, req, mwCtx, appCtx, mw, db, qp, frames, exc, log, hist>>

\* tracing.py:31-43 tracing_middleware after call_next returned a response
MiddlewareFinish(r) ==
    /\ pc[r] = "app_done"
    /\ log' = [log EXCEPT ![r] =
                 Append(@, log_span(mwCtx[r], "request", "",
                                    Duration(mw[r].start, clock), resp[r].status))]
    /\ resp' = [resp EXCEPT ![r].trace_header = Some(mw[r].trace_id)]
    /\ pc' = [pc EXCEPT ![r] = "done"]
    /\ UNCHANGED <<gwVars, bound, auxVars, hasDb, clock, req, mwCtx, appCtx, mw, db, qp, frames, exc, hist>>

\* tracing.py:31 call_next raised: the rest of tracing_middleware is skipped
\* and the server's error handler answers 500
MiddlewareRaise(r) ==
    /\ pc[r] = "app_raised"
    /\ resp' = [resp EXCEPT ![r] = [status |-> 500, trace_header |-> None]]
    /\ pc' = [pc EXCEPT ![r] = "done"]
    /\ UNCHANGED <<gwVars, bound, auxVars, hasDb, clock, req, mwCtx, appCtx, mw, db, qp, frames, exc, log, hist>>

\* one step of the handling of request r, a request drawn from  inputs  whose
\* handler opens Spans named in  spans
Handle(r, inputs, spans) ==
    \/ pc[r] = "idle" /\ \E q \in inputs : Arrive(r, q)
    \/ get_db(r)
    \/ Validate(r)
    \/ BodyEndpoint(r)
    \/ QueryEndpoint(r)
    \/ TracedEnter(r)
    \/ pc[r] = "handler" /\ \E name \in spans : HandlerEnterSpan(r, name)
    \/ HandlerReturn(r)
    \/ \E kind \in {"http", "error"} : HandlerRaise(r, kind)
    \/ Unwind(r)
    \/ AppDone(r)
    \/ MiddlewareFinish(r)
    \/ MiddlewareRaise(r)

\* ---------------------------------------------------------- gateway steps
\* the gateway process: the contract of config.yaml is loaded
InitGateway ==
    /\ urlPrefix \in UrlPrefixes
    /\ gw = GwIdle
    /\ gwLog = <<>>
    /\ bound = NoBinding
    /\ boot = BootIdle
    /\ qx = QxIdle
    /\ bus = BusIdle
    /\ hasDb = FALSE
    /\ clock = 0
    /\ pc = [r \in Reqs |-> "idle"]
    /\ req = [r \in Reqs |-> IdleRequest]
    /\ mwCtx = [r \in Reqs |-> DefaultContext]
    /\ appCtx = [r \in Reqs |-> DefaultContext]
    /\ mw = [r \in Reqs |-> [start |-> 0, trace_id |-> ""]]
    /\ db = [r \in Reqs |-> None]
    /\ qp = [r \in Reqs |-> NoKwargs]
    /\ frames = [r \in Reqs |-> <<>>]
    /\ exc = [r \in Reqs |-> "none"]
    /\ log = [r \in Reqs |-> <<>>]
    /\ hist = [r \in Reqs |-> <<>>]
    /\ resp = [r \in Reqs |-> NoResponse]

\* gateway middleware.py:14-17 GatewayLoggingMiddleware.dispatch up to
\* await call_next(request)
GwArrive(q) ==
    /\ gw.pc = "idle"
    /\ gw' = [gw EXCEPT !.pc = "proxy", !.start = clock, !.req = q]
    /\ UNCHANGED <<urlPrefix, gwLog, bound, auxVars, svcVars>>

\* gateway main.py:110-146 make_proxy_handler.handler up to the upstream call
GwProxy ==
    /\ gw.pc = "proxy"
    /\ gw' = [gw EXCEPT
                !.pc = "upstream",
                !.out = [method |-> gw.req.route.method,
                         url |-> UpstreamUrl(gw.req),
                         params |-> ForwardedParams(gw.req),
                         json |-> ForwardedJson(gw.req),
                         headers |-> HeaderPut(RequestHeaderFilter(gw.req.headers),
                                               TRACE_ID_HEADER,
                                               GatewayTraceId(gw.req.headers))],
                !.calls = Append(gw.calls, UpstreamUrl(gw.req))]
    /\ UNCHANGED <<urlPrefix, gwLog, bound, auxVars, svcVars>>

\* gateway main.py:140 client.request returns the upstream's response
GwUpstreamRespond(u) ==
    /\ gw.pc = "upstream"
    /\ gw' = [gw EXCEPT !.pc = "relay", !.up = u]
    /\ UNCHANGED <<urlPrefix, gwLog, bound, auxVars, svcVars>>

\* a handler that tries the upstream call once more when it raised
GwUpstreamFailRetry ==
    /\ gw.pc = "upstream"
    /\ gw' = IF Len(gw.calls) < 2
             THEN [gw EXCEPT !.pc = "proxy"]
             ELSE [gw EXCEPT !.pc = "done", !.error = "transport",
                             !.resp = [status |-> 500, headers |-> {}]]
    /\ UNCHANGED <<urlPrefix, gwLog, bound, auxVars, svcVars>>

\* gateway main.py:140 client.request raises (connection refused, timeout):
\* nothing catches it, the middleware's call_next raises and the server's
\* error handler answers 500
GwUpstreamFail ==
    /\ gw.pc = "upstream"
    /\ gw' = [gw EXCEPT !.pc = "done", !.error = "transport",
                        !.resp = [status |-> 500, headers |-> {}]]
    /\ UNCHANGED <<urlPrefix, gwLog, bound, auxVars, svcVars>>

\* gateway main.py:149-159, the Response handed back
GwRelay ==
    /\ gw.pc = "relay"
    /\ gw' = [gw EXCEPT
                !.pc = "log",
                !.resp = [status |-> gw.up.status,
                          headers |-> ResponseHeaderFilter(gw.up.headers)]]
    /\ UNCHANGED <<urlPrefix, gwLog, bound, auxVars, svcVars>>

\* gateway middleware.py:19-32 and logging.py:83-93 log_event: the payload
\* holds the event and the fields passed, trace_id among them
GwLogRequest ==
    /\ gw.pc = "log"
    /\ LET seen == HeaderGet(gw.resp.headers, TRACE_ID_HEADER)
       IN  gwLog' = Append(gwLog,
               [event |-> "gateway_request",
                trace_id |-> IF seen = None THEN "-" ELSE The(seen),
                status |-> gw.resp.status,
                method |-> gw.req.route.method,
                path |-> InboundPath(gw.req),
                duration |-> Duration(gw.start, clock)])
    /\ gw' = [gw EXCEPT !.pc = "done"]
    /\ UNCHANGED <<urlPrefix, bound, auxVars, svcVars>>

\* the responses an upstream gives: a status, a trace header or none, other headers
UpstreamResponses(statuses, traces, headerMaps) ==
    { [status |-> st, headers |-> WithTrace(hm, "x-trace-id", tr)]
      : st \in statuses, tr \in traces, hm \in headerMaps }

GatewayStep(inputs, responses) ==
    \/ gw.pc = "idle" /\ \E q \in inputs : GwArrive(q)
    \/ GwProxy
    \/ gw.pc = "upstream" /\ \E u \in responses : GwUpstreamRespond(u)
    \/ GwUpstreamFail
    \/ GwRelay
    \/ GwLogRequest

\* the inbound calls and upstream responses of the gateway specification
GatewayCalls ==
    GatewayRequests({None, Some(""), Some("abc-123")},
                    HeaderMaps({"Host", "accept"}),
                    {IdleRequest.query, [IdleRequest.query EXCEPT !.limit = Some(5)]},
                    {"none", "valid"})

GatewayUpstreams ==
    UpstreamResponses({200, 404, 500}, {None, Some("abc-123"), Some("gw-uuid")},
                      HeaderMaps({"content-type"}))

\* the gateway proxying one call of any route, under any urlPrefix
NextGateway == GatewayStep(GatewayCalls, GatewayUpstreams)

SpecGateway == InitGateway /\ [][NextGateway]_vars

\* inbound calls and upstream responses with any set of headers
HeaderCalls ==
    { q \in GatewayRequests({None, Some("abc-123")},
                  HeaderMaps({"Host", "Content-Length", "Transfer-Encoding",
                              "CONNECTION", "accept"}),
                  {IdleRequest.query}, {"valid"})
        : q.route.handler = "create_recipe" }

HeaderUpstreams ==
    UpstreamResponses({200}, {None, Some("abc-123")},
                      HeaderMaps({"host", "content-length", "transfer-encoding",
                                  "connection", "content-type"}))

\* the gateway proxying one call with any set of headers in both directions
NextGatewayHeaders == GatewayStep(HeaderCalls, HeaderUpstreams)

\* the gateway process under the urlPrefix "/api/v1"
InitGatewayDefault == InitGateway /\ urlPrefix = <<"/", "api", "/", "v1">>

SpecGatewayHeaders == InitGatewayDefault /\ [][NextGatewayHeaders]_vars

\* ------------------------------------------------- the argument binders
\* the three places of helpers.py that assemble a handler's positional
\* arguments, each applied to a request's path values, a validated body (or
\* None) and a database handle (or None)
BinderPathParams ==
    UNION { SeqsOf(PathParamValues \cup {<<"v1", "0">>}, n) : n \in 0..2 }

\* helpers.py:53-67 build_body_handler.endpoint (data is always present)
CallBodyEndpoint(pp, dbv) ==
    /\ bound' = [fn |-> "build_body_handler", path_params |-> pp,
                 data |-> Some("data"), db |-> dbv,
                 args |-> BodyHandlerArgs(pp, Some("data"), dbv)]
    /\ UNCHANGED <<svcVars, gwVars, auxVars>>

\* helpers.py:10-34 _run(handler_fn, request, data, db, qp)
CallRun(pp, data, dbv) ==
    /\ bound' = [fn |-> "_run", path_params |-> pp, data |-> data, db |-> dbv,
                 args |-> RunArgs(pp, data, dbv)]
    /\ UNCHANGED <<svcVars, gwVars, auxVars>>

\* helpers.py:89-115 bind_arguments(request, data, db, handler_fn, qp)
CallBindArguments(pp, data, dbv) ==
    /\ bound' = [fn |-> "bind_arguments", path_params |-> pp, data |-> data,
                 db |-> dbv, args |-> BindArgs(pp, data, dbv)]
    /\ UNCHANGED <<svcVars, gwVars, auxVars>>

NextBinders ==
    /\ bound = NoBinding
    /\ \E pp \in BinderPathParams, data \in {None, Some("data")},
          dbv \in {None, Some("session")} :
            \/ CallBodyEndpoint(pp, dbv)
            \/ CallRun(pp, data, dbv)
            \/ CallBindArguments(pp, data, dbv)

SpecBinders == Init /\ [][NextBinders]_vars

\* --------------------------------------------------------- startup steps
\* a process of the deployment is started over a config.yaml
Launch(kind, doc) ==
    /\ boot.state = "idle"
    /\ boot' = [boot EXCEPT !.state = "loading", !.kind = kind, !.doc = doc]
    /\ UNCHANGED <<svcVars, gwVars, bound, qx, bus>>

\* config.py:230-258 get_config, called while the modules are imported
\* (gateway main.py:12, app.py:8): the contract parsed, or the exception of
\* a schema reference that does not resolve
LoadConfig ==
    /\ boot.state = "loading"
    /\ boot' = IF ConfigParses(boot.doc)
               THEN [boot EXCEPT !.state = "wiring", !.config = boot.doc]
               ELSE [boot EXCEPT !.state = "failed"]
    /\ UNCHANGED <<svcVars, gwVars, bound, qx, bus>>

\* gateway main.py:165-199 register_routes at the startup event: a proxy
\* handler per route, no handler reference is resolved
register_routes ==
    /\ boot.state = "wiring"
    /\ boot.kind = "gateway"
    /\ boot' = [boot EXCEPT !.state = "serving",
                            !.table = GatewayTable(boot.config, urlPrefix)]
    /\ UNCHANGED <<svcVars, gwVars, bound, qx, bus>>

\* app.py:11-59 create_microservice(service_name): the service's own routes,
\* each handler resolved before its route is added
create_microservice ==
    /\ boot.state = "wiring"
    /\ boot.kind # "gateway"
    /\ LET named == ServiceNamed(boot.config, boot.kind)
       IN  IF named = {}
           THEN boot' = [boot EXCEPT !.state = "failed"]
           ELSE LET service == boot.config[CHOOSE s \in named : TRUE]
                IN  IF \A i \in 1..Len(service.routes) :
                          Resolves(service.routes[i].handler)
                    THEN boot' = [boot EXCEPT
                                    !.state = "serving",
                                    !.table = UnitsOf(service, service.routes, <<>>)]
                    ELSE boot' = [boot EXCEPT !.state = "failed"]
    /\ UNCHANGED <<svcVars, gwVars, bound, qx, bus>>

\* the router of a serving process takes a request: the first registered
\* route matching path and method, else 405 when a path matched, else 404
Dispatch(method, path) ==
    /\ boot.state = "serving"
    /\ LET hit == FirstMatch(boot.table, method, path)
       IN  boot' = [boot EXCEPT
                      !.state = "dispatched",
                      !.request = [method |-> method, path |-> path],
                      !.hit = hit,
                      !.outcome = IF hit # 0 THEN "endpoint"
                                  ELSE IF PartialMatch(boot.table, path)
                                       THEN "405" ELSE "404"]
    /\ UNCHANGED <<svcVars, gwVars, bound, qx, bus>>

\* any process started over any contract document, then one request
NextStartup ==
    \/ boot.state = "idle"
         /\ \E kind \in ProcessKinds, doc \in ContractDocs : Launch(kind, doc)
    \/ LoadConfig
    \/ register_routes
    \/ create_microservice
    \/ boot.state = "serving"
         /\ \E method \in HttpMethods, path \in DispatchPaths :
                Dispatch(method, path)

SpecStartup == Init /\ [][NextStartup]_vars

\* ------------------------------------------------ reading the contract
\* config.yaml is edited on disk while the process runs
DiskChange(doc) ==
    /\ boot.state \in {"loading", "serving"}
    /\ boot.doc # doc
    /\ boot' = [boot EXCEPT !.doc = doc]
    /\ UNCHANGED <<svcVars, gwVars, bound, qx, bus>>

\* config.py:230-258 get_config called by the next reader of the process:
\* the file is opened and parsed again, and the reader keeps that value
ReadContract ==
    /\ boot.state = "loading"
    /\ LET readers == ContractReaders(boot.kind)
           next == Len(boot.views) + 1
       IN  boot' = [boot EXCEPT
                      !.views = Append(@, [reader |-> readers[next],
                                           config |-> boot.doc]),
                      !.config = boot.doc,
                      !.state = IF next = Len(readers) THEN "serving"
                                ELSE "loading"]
    /\ UNCHANGED <<svcVars, gwVars, bound, qx, bus>>

\* a process whose readers look the contract up one after the other, over
\* a file that may change in between
NextReload ==
    \/ boot.state = "idle"
         /\ \E kind \in ProcessKinds, doc \in ReloadDocs : Launch(kind, doc)
    \/ boot.state \in {"loading", "serving"}
         /\ \E doc \in ReloadDocs : DiskChange(doc)
    \/ ReadContract

SpecReload == Init /\ [][NextReload]_vars

\* ------------------------------------------------------ consumer steps
\* messaging_bus.py:23 the channel calls _on_message with the next message
Deliver(body) ==
    /\ bus.pc = "idle"
    /\ ~bus.crashed
    /\ bus.delivered < MaxMessages
    /\ bus' = [bus EXCEPT !.pc = "decode", !.delivered = @ + 1, !.body = body]
    /\ UNCHANGED <<svcVars, gwVars, bound, boot, qx>>

\* messaging_bus.py:25 json.loads(body.decode("utf-8")) returns or raises
Decode ==
    /\ bus.pc = "decode"
    /\ bus' = IF bus.body = "json"
              THEN [bus EXCEPT !.pc = "callback"]
              ELSE [bus EXCEPT !.pc = "except",
                               !.outcomes = Append(@, "decode_error")]
    /\ UNCHANGED <<svcVars, gwVars, bound, boot, qx>>

\* messaging_bus.py:27 callback(data, ch) returns
CallbackReturn ==
    /\ bus.pc = "callback"
    /\ bus' = [bus EXCEPT !.pc = "ack", !.outcomes = Append(@, "ok")]
    /\ UNCHANGED <<svcVars, gwVars, bound, boot, qx>>

\* messaging_bus.py:27 callback(data, ch) raises an Exception
CallbackRaise ==
    /\ bus.pc = "callback"
    /\ bus' = [bus EXCEPT !.pc = "except",
                          !.outcomes = Append(@, "callback_error")]
    /\ UNCHANGED <<svcVars, gwVars, bound, boot, qx>>

\* messaging_bus.py:28 ch.basic_ack returns
Ack ==
    /\ bus.pc = "ack"
    /\ bus' = [bus EXCEPT
                 !.pc = "idle",
                 !.calls = Append(@, ChannelCall(bus.delivered, "ack", FALSE, FALSE))]
    /\ UNCHANGED <<svcVars, gwVars, bound, boot, qx>>

\* messaging_bus.py:28 ch.basic_ack raises (the channel or the connection
\* went down while the callback ran): the call is inside the try block, so
\* control goes to the except clause
AckRaise ==
    /\ bus.pc = "ack"
    /\ bus' = [bus EXCEPT
                 !.pc = "except",
                 !.calls = Append(@, ChannelCall(bus.delivered, "ack", FALSE, TRUE))]
    /\ UNCHANGED <<svcVars, gwVars, bound, boot, qx>>

\* messaging_bus.py:29-32 the except clause: ch.basic_nack(requeue=False)
\* returns
Nack ==
    /\ bus.pc = "except"
    /\ bus' = [bus EXCEPT
                 !.pc = "idle",
                 !.calls = Append(@, ChannelCall(bus.delivered, "nack", FALSE, FALSE))]
    /\ UNCHANGED <<svcVars, gwVars, bound, boot, qx>>

\* messaging_bus.py:32 ch.basic_nack raises: the exception leaves
\* _on_message and ends the consumer loop
NackRaise ==
    /\ bus.pc = "except"
    /\ bus' = [bus EXCEPT
                 !.pc = "idle", !.crashed = TRUE,
                 !.calls = Append(@, ChannelCall(bus.delivered, "nack", FALSE, TRUE))]
    /\ UNCHANGED <<svcVars, gwVars, bound, boot, qx>>

\* a consumer taking up to MaxMessages messages, one at a time (prefetch 1)
NextBus ==
    \/ bus.pc = "idle" /\ \E body \in MessageBodies : Deliver(body)
    \/ Decode
    \/ CallbackReturn
    \/ CallbackRaise
    \/ Ack
    \/ AckRaise
    \/ Nack
    \/ NackRaise

SpecBus == Init /\ [][NextBus]_vars

\* ------------------------------------------------- the query dependency
\* utils.py:16-39 build_query_dependency(route): qp_fields is read from
\* route.query_params and not used; the query_dep returned is the same for
\* every route
build_query_dependency(declared) ==
    /\ qx.state = "idle"
    /\ qx' = [qx EXCEPT !.state = "built", !.declared = declared]
    /\ UNCHANGED <<svcVars, gwVars, bound, boot, bus>>

\* utils.py:27-37 query_dep called by FastAPI on a request's query string:
\* the Query bounds are checked, then the dict is returned
ExtractQuery(query) ==
    /\ qx.state = "built"
    /\ qx' = IF QueryValid(query)
             THEN [qx EXCEPT !.state = "extracted", !.query = query,
                             !.names = QueryDepNames,
                             !.kwargs = query_dep(query)]
             ELSE [qx EXCEPT !.state = "rejected", !.query = query]
    /\ UNCHANGED <<svcVars, gwVars, bound, boot, bus>>

\* a query dependency built for any declared mapping, applied to any query
NextQuery ==
    \/ qx.state = "idle"
         /\ \E declared \in QueryParamMappings : build_query_dependency(declared)
    \/ qx.state = "built" /\ \E query \in Queries : ExtractQuery(query)

SpecQuery == Init /\ [][NextQuery]_vars

\* a backend service handling one request
Next == Handle("A", Requests, HandlerSpans)

Spec == Init /\ [][Next]_vars

\* the requests followed with the clock running
TimedRequests ==
    RequestsOn(Routes, {Some("abc-123")},
               [limit : {None}, offset : {None}, search : {None}], {"valid"})

\* a backend service handling one request while time passes
NextTimed == Tick \/ Handle("A", TimedRequests, HandlerSpans)

SpecTimed == Init /\ [][NextTimed]_vars

\* a backend service handling two requests concurrently
NextConcurrent == \E r \in Reqs : Handle(r, ConcurrentRequests, {"db_query"})

SpecConcurrent == Init /\ [][NextConcurrent]_vars

\* the requests whose trace id is followed
TraceRequests ==
    RequestsOn({rt \in Routes : rt.handler \in {"list_recipes", "create_recipe"}},
               TraceHeaders,
               [limit : {None}, offset : {None}, search : {None}], {"valid"})

\* the gateway calls whose trace id is followed, and their upstream responses
TraceCalls ==
    { q \in GatewayRequests(TraceHeaders, {{}}, {IdleRequest.query}, {"valid"})
        : q.route.handler = "create_recipe" }

TraceUpstreams == UpstreamResponses({200}, {None, Some("gw-uuid")}, {{}})

\* a backend service handling one request and the gateway proxying one call,
\* each with or without a trace header
NextTrace ==
    \/ Handle("A", TraceRequests, {"db_query"})
    \/ GatewayStep(TraceCalls, TraceUpstreams)

SpecTrace == Init /\ [][NextTrace]_vars

\* ================================================================== claims
Bad == <<"!">>

\* the Spans a log leaves open when its span_start / span_end records are
\* read as brackets, or Bad when a span_end does not close the innermost one
RECURSIVE Replay(_, _)
Replay(lg, open) ==
    IF lg = <<>> THEN open
    ELSE IF Head(lg).event = "span_start"
         THEN Replay(Tail(lg), Append(open, Head(lg).name))
    ELSE IF Head(lg).event = "span_end"
         THEN IF open # <<>> /\ Last(open) = Head(lg).name
              THEN Replay(Tail(lg), Front(open))
              ELSE Bad
    ELSE Replay(Tail(lg), open)

Count(lg, event) == Cardinality({i \in DOMAIN lg : lg[i].event = event})

OpenSpanNames(r) == [i \in 1..Len(frames[r]) |-> frames[r][i].name]

\* the trace id of request r: the process default before the request is seen
OwnTraceId(r) == IF pc[r] = "idle" THEN DefaultTraceId ELSE StartTraceId(r, req[r])

HasTrace(q) == q.trace_header # None /\ The(q.trace_header) # ""

Invoked(r) == \E i \in DOMAIN hist[r] : hist[r][i].ev = "invoke"

\* C2: under any interleaving of two requests, each request's contexts hold
\* its own trace id and the names of its own open spans only, and every record
\* logged for it carries its own trace id - whatever the other request does,
\* failing included.
C2_ContextIsolated ==
    \A r \in Reqs :
        /\ mwCtx[r].trace_id = OwnTraceId(r)
        /\ appCtx[r].trace_id = OwnTraceId(r)
        /\ mwCtx[r].span_stack = <<>>
        /\ appCtx[r].span_stack = OpenSpanNames(r)
        /\ \A i \in DOMAIN log[r] : log[r][i].trace_id = OwnTraceId(r)

\* C2 witness: A has failed with an error while B, with another trace id, is
\* inside its handler with open spans and records logged.
C2_Witness ==
    /\ pc["A"] = "done" /\ exc["A"] = "error"
    /\ pc["B"] = "handler" /\ Len(appCtx["B"].span_stack) >= 2
    /\ OwnTraceId("A") # OwnTraceId("B")
    /\ log["A"] # <<>> /\ log["B"] # <<>>

\* C3: a request that carries trace header T gets a response whose trace
\* header is T.
C3_ResponseCarriesTrace ==
    \A r \in Reqs :
        (pc[r] = "done" /\ HasTrace(req[r]))
            => resp[r].trace_header = req[r].trace_header

\* C4: every record logged while handling a call that carries trace header T
\* carries trace id T, the gateway's gateway_request event included.
C4_GatewayEventCarriesTrace ==
    \A i \in DOMAIN gwLog :
        LET given == HeaderGet(gw.req.headers, TRACE_ID_HEADER)
        IN  (given # None /\ The(given) # "") => gwLog[i].trace_id = The(given)

C6_SpanAccounting ==
    \A r \in Reqs :
        /\ Replay(log[r], <<>>) # Bad
        /\ Len(appCtx[r].span_stack)
              = Count(log[r], "span_start") - Count(log[r], "span_end")
        /\ pc[r] \in {"app_done", "app_raised", "done"}
              => /\ Replay(log[r], <<>>) = <<>>
                 /\ appCtx[r].span_stack = <<>>
        /\ \A i \in DOMAIN hist[r] :
               hist[r][i].ev = "raise"
                  => /\ exc[r] = hist[r][i].via
                     /\ pc[r] = "done"
                           => resp[r].status = IF exc[r] = "error" THEN 500 ELSE 404

\* C6 witness: the handler raised an error inside three open spans; all three
\* were closed and the caller got the error.
C6_Witness ==
    /\ pc["A"] = "done" /\ exc["A"] = "error"
    /\ Count(log["A"], "span_start") >= 3
    /\ Count(log["A"], "span_end") = Count(log["A"], "span_start")

\* C7: every binder of the dispatcher passes a validated body after the path
\* parameters and before the persistence handle.
C7_OneBindingOrder ==
    (bound.fn # "" /\ bound.data # None)
        => bound.args = PathArgs(bound.path_params) \o <<BodyArg>>
                          \o (IF bound.db # None THEN <<DbArg>> ELSE <<>>)

\* C8: the persistence handle of a request is never released before the
\* handler is invoked.
C8_ReleaseAfterHandler ==
    \A r \in Reqs :
        \A i, j \in DOMAIN hist[r] :
            (hist[r][i].ev = "db_release" /\ hist[r][j].ev = "invoke") => j < i

\* the two cases of C9 for request r
LimitCases(r) ==
    /\ (req[r].query.limit = None /\ Invoked(r))
          => \E i \in DOMAIN hist[r] :
                 /\ hist[r][i].ev = "invoke"
                 /\ hist[r][i].kwargs.src = "query"
                 /\ hist[r][i].kwargs.limit = 100
    /\ req[r].query.limit = Some(-1)
          => /\ ~Invoked(r)
             /\ pc[r] \in {"app_done", "done"} => resp[r].status = 422

\* C9 as stated: on every route without a request schema, with or without a
\* placeholder in its template, a request without limit reaches the handler
\* with limit=100 and a request with limit=-1 is rejected, handler not invoked.
C9_LimitOnEveryRoute ==
    \A r \in Reqs :
        (pc[r] # "idle" /\ ~req[r].route.request_model) => LimitCases(r)

\* C9 amended: the same on every such route whose template has no placeholder.
C9_LimitOnListRoutes ==
    \A r \in Reqs :
        (pc[r] # "idle" /\ ~req[r].route.request_model
            /\ ~HasPlaceholder(req[r].route.path)) => LimitCases(r)

\* C9 witness: a list route, no limit given, handler invoked with limit=100.
C9_Witness ==
    /\ pc["A"] = "done"
    /\ ~req["A"].route.request_model /\ ~HasPlaceholder(req["A"].route.path)
    /\ req["A"].query.limit = None
    /\ \E i \in DOMAIN hist["A"] :
           hist["A"][i].ev = "invoke" /\ hist["A"][i].kwargs.limit = 100

FramingHeaders == {"host", "content-length", "transfer-encoding", "connection"}

\* C1: none of Host, Content-Length, Transfer-Encoding, Connection is among
\* the headers of the request forwarded upstream or of the response relayed.
C1_NoFramingHeaders ==
    /\ gw.pc \in {"upstream", "relay", "log", "done"}
          => \A h \in gw.out.headers : Lower(h[1]) \notin FramingHeaders
    /\ gw.pc \in {"log", "done"}
          => \A h \in gw.resp.headers : Lower(h[1]) \notin FramingHeaders

\* C10: the upstream URL is the service's base url followed by the route
\* template with each placeholder replaced by the matched value.
C10_UpstreamUrl ==
    gw.pc \in {"upstream", "relay", "log", "done"}
        => gw.out.url = build_url(gw.req.service, gw.req.route, gw.req.path_params)

\* C11: two routes declared on the same path template with different
\* methods are separate dispatch units, in the gateway and in a service: a
\* request with the method of one of them, on a path of that template,
\* reaches the unit made for the route declared with that method and never
\* the unit of the other
C11_MethodSelectsUnit ==
    boot.state = "dispatched" =>
        \A i, j \in 1..Len(boot.table) :
            LET u == boot.table[i]
                v == boot.table[j]
            IN  ( /\ u.path = v.path
                  /\ u.service = v.service
                  /\ Upper(u.route.method) # Upper(v.route.method)
                  /\ boot.request.method = Upper(u.route.method)
                  /\ PathMatches(u.path, boot.request.path) )
                => /\ boot.hit # 0
                   /\ boot.hit # j
                   /\ Upper(boot.table[boot.hit].route.method) = boot.request.method
                   /\ boot.table[boot.hit].route.path = u.route.path

\* the gateway dispatched a request to the second declared of two routes
\* that share a path and differ by method
C11_Witness ==
    /\ boot.state = "dispatched"
    /\ boot.kind = "gateway"
    /\ boot.hit >= 2
    /\ \E j \in 1..(boot.hit - 1) :
          /\ boot.table[j].path = boot.table[boot.hit].path
          /\ boot.table[j].service = boot.table[boot.hit].service
          /\ Upper(boot.table[j].route.method) # boot.request.method

\* the local-origin pattern of tracing.py:18, "LOCAL-" followed by a uuid
IsLocalOrigin(id) == \E u \in Reqs : id = "LOCAL-" \o u

\* what C12 says of request r in a backend service: the id synthesized at
\* its arrival is local-origin, and both contexts, every record logged and
\* the response header hold that id
LocalTraceStable(r) ==
    (pc[r] # "idle" /\ ~HasTrace(req[r]))
        => /\ IsLocalOrigin(mw[r].trace_id)
           /\ mwCtx[r].trace_id = mw[r].trace_id
           /\ appCtx[r].trace_id = mw[r].trace_id
           /\ \A i \in DOMAIN log[r] : log[r][i].trace_id = mw[r].trace_id
           /\ resp[r].trace_header \in {None, Some(mw[r].trace_id)}

\* C12 as stated: a request without a trace header gets, from the runtime
\* that first observes it - backend service or gateway - a synthesized trace
\* id of the local-origin pattern, which every read during the request
\* returns.
C12_LocalOriginInEveryRuntime ==
    /\ \A r \in Reqs : LocalTraceStable(r)
    /\ (gw.pc \notin {"idle", "proxy"}
          /\ HeaderGet(gw.req.headers, TRACE_ID_HEADER) = None)
        => \A id \in HeaderGet(gw.out.headers, TRACE_ID_HEADER) : IsLocalOrigin(id)

\* C12 amended: a request without a trace header that reaches a backend
\* service gets a synthesized trace id of the local-origin pattern there,
\* which every read during the request returns.
C12_LocalOriginInService ==
    \A r \in Reqs : LocalTraceStable(r)

\* a request without a trace header was answered by the service after its
\* handler logged spans, the response carrying the synthesized id
C12_Witness ==
    /\ pc["A"] = "done"
    /\ req["A"].trace_header = None
    /\ Len(log["A"]) >= 3
    /\ resp["A"].trace_header = Some(mw["A"].trace_id)

C14_InvalidBodyRejected ==
    \A r \in Reqs :
        (pc[r] # "idle" /\ req[r].route.request_model /\ req[r].body # "valid")
            => /\ ~Invoked(r)
               /\ pc[r] \in {"app_done", "done"}
                    => (resp[r].status >= 400 /\ resp[r].status <= 499)

\* a request with a body the schema rejects was answered
C14_Witness ==
    /\ pc["A"] = "done"
    /\ req["A"].route.request_model
    /\ req["A"].body = "invalid"
    /\ resp["A"].status = 422
    /\ ~Invoked("A")

\* C15: when the upstream call fails at the transport level the caller gets
\* a 5xx response, and the gateway has issued exactly one upstream call, to
\* the route's own service: no retry, no other target.
C15_OneCallThenServerError ==
    /\ Len(gw.calls) <= 1
    /\ gw.error = "transport"
        => /\ gw.pc = "done"
           /\ gw.resp.status >= 500 /\ gw.resp.status <= 599
           /\ Len(gw.calls) = 1
           /\ SubSeq(gw.calls[1], 1, Len(gw.req.service.url)) = gw.req.service.url

\* the upstream call of a proxied POST failed and the caller was answered
C15_Witness ==
    /\ gw.error = "transport"
    /\ gw.req.route.method = "POST"
    /\ gw.resp.status = 500
    /\ Len(gw.calls) = 1

\* whether every handler and schema reference of a contract document resolves
AllReferencesResolve(doc) ==
    \A s \in 1..Len(doc) : \A i \in 1..Len(doc[s].routes) :
        LET rd == doc[s].routes[i]
        IN  /\ Resolves(rd.handler)
            /\ rd.request_model = None \/ Resolves(The(rd.request_model))

\* C16: a process - gateway or backend service - started over a contract
\* with a handler or schema reference that does not resolve fails at
\* startup: none reaches the serving state, so none takes a request.
C16_UnresolvedFailsStartup ==
    boot.state \in {"serving", "dispatched"} => AllReferencesResolve(boot.doc)

\* whether no service of a contract document declares a (method, path) twice
RoutesUnique(doc) ==
    \A s \in 1..Len(doc) : \A i, j \in 1..Len(doc[s].routes) :
        ( /\ Upper(doc[s].routes[i].method) = Upper(doc[s].routes[j].method)
          /\ doc[s].routes[i].path = doc[s].routes[j].path )
        => i = j

\* C17: in every contract a process has loaded, the (method, path) of a
\* route is unique within its service; a process started over a document
\* with a duplicate fails at startup.
C17_DuplicateFailsStartup ==
    boot.state \in {"wiring", "serving", "dispatched"} => RoutesUnique(boot.doc)

\* C18: for every inbound call the gateway has answered, it has logged
\* exactly one gateway_request event, which carries the call's trace id, its
\* method and path, the upstream status and a duration - also when the call
\* came without a trace header and when the upstream call failed at the
\* transport level.
C18_OneGatewayRequestEvent ==
    gw.pc = "done" =>
        /\ Len(gwLog) = 1
        /\ gwLog[1].event = "gateway_request"
        /\ <<TRACE_ID_HEADER, gwLog[1].trace_id>> \in gw.out.headers
        /\ gwLog[1].method = gw.req.route.method
        /\ gwLog[1].path = InboundPath(gw.req)
        /\ gwLog[1].status = gw.resp.status
        /\ gwLog[1].duration >= 0

\* whether the i-th observed call of request r is the handler's invocation
\* with the options the query dependency extracts from the query string
QueryOptionsPassed(r, i) ==
    /\ hist[r][i].kwargs.src = "query"
    /\ hist[r][i].kwargs.limit \in {100} \cup req[r].query.limit
    /\ hist[r][i].kwargs.offset \in {0} \cup req[r].query.offset
    /\ hist[r][i].kwargs.search = req[r].query.search

C20_ExtractorFollowsDeclaration ==
    /\ qx.state = "extracted"
        => /\ qx.names = { d.name : d \in qx.declared }
           /\ \A d \in qx.declared :
                /\ (d.name = "limit" /\ qx.query.limit = None)
                      => Some(qx.kwargs.limit) = d.default
                /\ (d.name = "limit" /\ qx.query.limit # None /\ d.ge # None)
                      => The(qx.query.limit) >= The(d.ge)
    /\ qx.state = "rejected"
        => \E d \in qx.declared :
              /\ d.ge # None
              /\ \/ d.name = "limit" /\ qx.query.limit # None
                       /\ The(qx.query.limit) < The(d.ge)
                 \/ d.name = "offset" /\ qx.query.offset # None
                       /\ The(qx.query.offset) < The(d.ge)

\* C21: the default of a query parameter stands in only for a parameter the
\* request omits: a supplied value within the bounds - the lower bound 0
\* itself included - reaches the handler as supplied.
C21_SuppliedValueReachesHandler ==
    \A r \in Reqs : \A i \in DOMAIN hist[r] :
        (hist[r][i].ev = "invoke" /\ hist[r][i].kwargs.src = "query")
            => /\ req[r].query.limit # None
                    => hist[r][i].kwargs.limit = The(req[r].query.limit)
               /\ req[r].query.offset # None
                    => hist[r][i].kwargs.offset = The(req[r].query.offset)
               /\ hist[r][i].kwargs.search = req[r].query.search

\* C22: while the handler of a dispatched request runs, exactly one span
\* opened by the dispatcher is open, and its name is that of the route's
\* handler function - on routes with and without a request schema, traced
\* handlers included.
C22_OneDispatcherSpan ==
    \A r \in Reqs :
        pc[r] = "handler" =>
            LET opened == { i \in 1..Len(frames[r]) : frames[r][i].owner = "run" }
            IN  /\ Cardinality(opened) = 1
                /\ \A i \in opened : frames[r][i].name = req[r].route.handler

\* whether the inbound call of the gateway has a query string
CarriesQuery(q) == q.query # IdleRequest.query

\* what C23 says of the body and of the methods other than GET: the JSON
\* body is forwarded as it came on POST, PUT and PATCH and on no other
\* method, and no query parameter is forwarded on a method other than GET
BodyAndNonGetForwarding ==
    /\ (gw.req.route.method \in {"POST", "PUT", "PATCH"} /\ gw.req.body # "none")
          => gw.out.json = Some(gw.req.body)
    /\ gw.req.route.method \notin {"POST", "PUT", "PATCH"} => gw.out.json = None
    /\ gw.req.route.method # "GET" => gw.out.params = None

C24_NoPlaceholderUpstream ==
    \A i \in DOMAIN gw.calls :
        /\ \A k \in DOMAIN gw.calls[i] : gw.calls[i][k] \notin Placeholders
        /\ \A j \in DOMAIN gw.req.path_params :
              \E k \in DOMAIN gw.calls[i] :
                  SubSeq(gw.calls[i], k, k + Len(gw.req.path_params[j]) - 1)
                      = gw.req.path_params[j]

\* a call of the route with two placeholders went upstream
C24_Witness ==
    /\ gw.pc = "upstream"
    /\ Len(gw.calls) = 1
    /\ Len(ParamNames(gw.req.route.path)) = 2
    /\ gw.req.path_params = << <<"123">>, <<"7">> >>

\* C25: the contract is loaded once per process: every reader of one
\* process holds the same contract value, whatever happens to the document
\* on disk between their lookups.
C25_OneContractPerProcess ==
    \A i, j \in DOMAIN boot.views : boot.views[i].config = boot.views[j].config

\* the channel calls issued for the message with delivery tag t
CallsFor(t) == { i \in DOMAIN bus.calls : bus.calls[i].tag = t }

\* C26: for every message the consumer has finished with, exactly one
\* acknowledgment call was issued: basic_ack if decoding and the callback
\* completed without error, basic_nack with requeue disabled otherwise;
\* never both, and never a requeue.
C26_OneAckDecision ==
    \A t \in 1..bus.delivered :
        /\ \A i \in CallsFor(t) : ~bus.calls[i].requeue
        /\ Cardinality(CallsFor(t)) <= 1
        /\ (t < bus.delivered \/ bus.pc = "idle")
              => /\ Cardinality(CallsFor(t)) = 1
                 /\ \A i \in CallsFor(t) :
                       bus.calls[i].call = "ack" <=> bus.outcomes[t] = "ok"

\* C27: every route of every service of the contract is reachable through
\* the gateway and bound to its own service: a request with the route's
\* method on urlPrefix + path reaches a unit made for the service that
\* declares the route - also when two services declare the same method and
\* path.
C27_RouteBoundToOwnService ==
    (boot.kind = "gateway" /\ boot.state = "dispatched") =>
        \A s \in 1..Len(boot.config) : \A i \in 1..Len(boot.config[s].routes) :
            LET rd == boot.config[s].routes[i]
            IN  ( /\ boot.request.method = Upper(rd.method)
                  /\ PathMatches(urlPrefix \o rd.path, boot.request.path) )
                => /\ boot.hit # 0
                   /\ boot.table[boot.hit].service = boot.config[s].name

====
